---- MODULE Spec2Model ----
(***************************************************************************)
(* SmartClause server: the conversation, analysis, user and contract      *)
(* routes of server/routes.ts over the storage of server/storage.ts, and   *)
(* the routing of the page in the browser.                                 *)
(*                                                                         *)
(* A request handler is an async function: it runs without interruption    *)
(* up to an await of a storage call, and the storage call takes effect at  *)
(* a later moment, when other requests may have run.  Each action below is *)
(* one such uninterrupted stretch of a handler.  Conversations are stored  *)
(* as DatabaseStorage, the exported `storage`, stores them; users,         *)
(* contracts, analyses and risky clauses as MemStorage does.               *)
(*                                                                         *)
(* Text is a sequence of one-character strings, so that toLowerCase,       *)
(* includes and truthiness are computed and not assumed.  The long answer  *)
(* and demo texts of the source are abbreviated to their section and       *)
(* figure.  Timestamps (createdAt, updatedAt, Message.timestamp) are left  *)
(* out: no operation reads them.                                           *)
(***************************************************************************)
EXTENDS Integers, Sequences, FiniteSets, TLC

(***************************************************************************)
(* Bounds of the model.                                                    *)
(***************************************************************************)
\* number of HTTP requests in one behaviour
MaxReq == 3

Req == 1..MaxReq

\* the analysis routes have handlers of up to five storage calls: this many
\* of the requests go to them
MaxAnalysisReq == 2

AnalysisReq == 1..MaxAnalysisReq

\* direct questions that try every branch of the answer generator
MaxAnswerReq == 2

AnswerReq == 1..MaxAnswerReq

\* requests to the user routes (register, update)
MaxUserReq == 2

UserReq == 1..MaxUserReq

\* requests of which some delete a contract and the others read what
\* belonged to it
MaxDeleteReq == 2

DeleteReq == 1..MaxDeleteReq

(***************************************************************************)
(* Text.                                                                   *)
(***************************************************************************)
K_terminate ==
    <<"t", "e", "r", "m", "i", "n", "a", "t", "e">>
K_termination ==
    <<"t", "e", "r", "m", "i", "n", "a", "t", "i", "o", "n">>
K_confidential ==
    <<"c", "o", "n", "f", "i", "d", "e", "n", "t", "i", "a", "l">>
K_confidentiality ==
    <<"c", "o", "n", "f", "i", "d", "e", "n", "t", "i", "a", "l", "i", "t", "y">>
K_payment ==
    <<"p", "a", "y", "m", "e", "n", "t">>
K_invoice ==
    <<"i", "n", "v", "o", "i", "c", "e">>
K_liability ==
    <<"l", "i", "a", "b", "i", "l", "i", "t", "y">>
K_damages ==
    <<"d", "a", "m", "a", "g", "e", "s">>

\* the five texts answerContractQuestion returns, abbreviated
A_Termination ==
    <<"8", ".", "1", ":", " ", "3", "0", " ", "d", "a", "y", "s">>
A_Confidentiality ==
    <<"1", "1", ".", "3", ":", " ", "3", " ", "y", "e", "a", "r", "s">>
A_Payment ==
    <<"5", ":", " ", "3", "0", " ", "d", "a", "y", "s">>
A_Liability ==
    <<"9", ":", " ", "c", "a", "p", "p", "e", "d">>
A_Default ==
    <<"s", "p", "e", "c", "i", "f", "y", " ", "t", "o", "p", "i", "c">>

\* String.prototype.toLowerCase, on the letters A to Z
UpperCase ==
    <<"A", "B", "C", "D", "E", "F", "G", "H", "I", "J", "K", "L",
      "M", "N", "O", "P", "Q", "R", "S", "T", "U", "V", "W", "X",
      "Y", "Z">>
LowerCase ==
    <<"a", "b", "c", "d", "e", "f", "g", "h", "i", "j", "k", "l",
      "m", "n", "o", "p", "q", "r", "s", "t", "u", "v", "w", "x",
      "y", "z">>

LowerChar(c) ==
    IF \E i \in 1..Len(UpperCase) : UpperCase[i] = c
        THEN LowerCase[CHOOSE i \in 1..Len(UpperCase) : UpperCase[i] = c]
        ELSE c

toLowerCase(s) == [i \in 1..Len(s) |-> LowerChar(s[i])]

\* String.prototype.includes
includes(s, sub) ==
    \E i \in 0..(Len(s) - Len(sub)) : SubSeq(s, i + 1, i + Len(sub)) = sub

IsSpace(c) == c \in {" ", "\t", "\n"}

\* blank after String.prototype.trim
IsBlank(s) == \A i \in 1..Len(s) : IsSpace(s[i])

(***************************************************************************)
(* JSON values of a request body, tagged with their JavaScript type.       *)
(***************************************************************************)
JsUndefined == [t |-> "undefined", s |-> <<>>]
JsString(s) == [t |-> "string", s |-> s]
\* a number other than 0, for example 42
JsNumber == [t |-> "number", s |-> <<>>]

\* !v of JavaScript
Falsy(v) == v.t = "undefined" \/ (v.t = "string" /\ v.s = <<>>)

(***************************************************************************)
(* answerContractQuestion: the first matching keyword pair decides.        *)
(* A question that is no string has no toLowerCase: the call throws.       *)
(***************************************************************************)
answerThrows(question) == question.t # "string"

\* mutant: a question with no keyword gets the empty string
answerContractQuestion_NoDefault(question) ==
    LET q == toLowerCase(question.s) IN
    IF includes(q, K_terminate) \/ includes(q, K_termination)
        THEN A_Termination
    ELSE IF includes(q, K_confidential) \/ includes(q, K_confidentiality)
        THEN A_Confidentiality
    ELSE IF includes(q, K_payment) \/ includes(q, K_invoice)
        THEN A_Payment
    ELSE IF includes(q, K_liability) \/ includes(q, K_damages)
        THEN A_Liability
    ELSE <<>>

answerContractQuestion(question) ==
    LET q == toLowerCase(question.s) IN
    IF includes(q, K_terminate) \/ includes(q, K_termination)
        THEN A_Termination
    ELSE IF includes(q, K_confidential) \/ includes(q, K_confidentiality)
        THEN A_Confidentiality
    ELSE IF includes(q, K_payment) \/ includes(q, K_invoice)
        THEN A_Payment
    ELSE IF includes(q, K_liability) \/ includes(q, K_damages)
        THEN A_Liability
    ELSE A_Default

(***************************************************************************)
(* Messages and conversations.                                             *)
(***************************************************************************)
Message(id, role, content) == [id |-> id, role |-> role, content |-> content]

\* Math.random().toString(36).substr(2, 9): a fresh id for each message of
\* each request (collisions of the random ids are not modelled)
UserMsgId(r) == 2 * r - 1
AiMsgId(r) == 2 * r

DemoQ1 ==
    <<"t", "e", "r", "m", "i", "n", "a", "t", "e", "d", " ", "e", "a", "r", "l", "y", "?">>
DemoQ2 ==
    <<"c", "o", "n", "f", "i", "d", "e", "n", "t", "i", "a", "l", "?">>

\* the conversation addDemoData stores for contract 1
DemoConversation ==
    [id |-> 1, userId |-> 1, contractId |-> 1,
     messages |-> << Message(-4, "user", DemoQ1),
                     Message(-3, "assistant", A_Termination),
                     Message(-2, "user", DemoQ2),
                     Message(-1, "assistant", A_Confidentiality) >>]

\* the contracts addDemoData stores
DemoContracts == {1, 2, 3, 4}

Q_Blank ==
    <<" ", " ">>
Q_Terminate ==
    <<"T", "e", "r", "m", "i", "n", "a", "t", "e", "?">>

\* what the Q&A page sends as `messages` after a direct answer:
\* [...messages, userMsg, aiMsg] with ids of its own
DirectPair ==
    << Message(-6, "user", Q_Terminate),
       Message(-5, "assistant", A_Termination) >>

(***************************************************************************)
(* analyzeContract: keywords of the text decide the risk score and the     *)
(* indices; the summary is fixed.  A text that is no string has no         *)
(* toLowerCase: the call throws.                                           *)
(***************************************************************************)
K_compete ==
    <<"c", "o", "m", "p", "e", "t", "e">>

\* the six points of every summary, abbreviated
Summary ==
    <<"duration", "payment", "indemnification", "non-compete",
      "confidentiality", "ownership">>

analyzeThrows(text) == text.t # "string"

hasHighRisk(text) ==
    \/ includes(toLowerCase(text.s), K_termination)
    \/ includes(toLowerCase(text.s), K_compete)

hasMediumRisk(text) ==
    \/ includes(toLowerCase(text.s), K_payment)
    \/ includes(toLowerCase(text.s), K_liability)

\* mutant: the medium keywords are looked at first
analyzeContract_MediumFirst(text) ==
    LET riskScore == IF hasMediumRisk(text) THEN "medium"
                     ELSE IF hasHighRisk(text) THEN "high"
                     ELSE "low"
    IN  [summary |-> Summary,
         riskyClauseIndices |-> IF hasMediumRisk(text) THEN <<1>>
                                ELSE IF hasHighRisk(text) THEN <<0, 3>>
                                ELSE <<>>,
         fullAnalysis |-> [riskLevel |-> riskScore],
         riskScore |-> riskScore]

analyzeContract(text) ==
    LET riskScore == IF hasHighRisk(text) THEN "high"
                     ELSE IF hasMediumRisk(text) THEN "medium"
                     ELSE "low"
    IN  [summary |-> Summary,
         riskyClauseIndices |-> IF hasHighRisk(text) THEN <<0, 3>>
                                ELSE IF hasMediumRisk(text) THEN <<1>>
                                ELSE <<>>,
         fullAnalysis |-> [riskLevel |-> riskScore],
         riskScore |-> riskScore]

\* no analysis result yet
NoResult ==
    [summary |-> <<>>, riskyClauseIndices |-> <<>>,
     fullAnalysis |-> [riskLevel |-> "none"], riskScore |-> "none"]

\* mockRiskyClauses of the analyze-contract handler (texts left out)
mockRiskyClauses ==
    << [clauseIndex |-> 0, riskLevel |-> "high"],
       [clauseIndex |-> 3, riskLevel |-> "medium"] >>

(***************************************************************************)
(* Users, analyses and risky clauses of addDemoData.                       *)
(***************************************************************************)
\* 'demo@example.com'
E_Demo ==
    << "d", "e", "m", "o", "@", "e", "x", "a", "m", "p", "l", "e", ".", "c",
       "o", "m" >>

\* a user row; riskScore is no column of users: "absent" until something
\* spreads it into the object
DemoUser ==
    [id |-> 1, email |-> E_Demo,
     password |-> "$2a$10$demohashedsecretpassword", planType |-> "pro",
     riskScore |-> "absent"]

\* riskScore of the four demo contracts
DemoRiskScore == <<"high", "low", "medium", "medium">>

\* the contract rows of addDemoData: all of the demo user
DemoContractRows ==
    [c \in DemoContracts |->
        [id |-> c, userId |-> 1, riskScore |-> DemoRiskScore[c]]]

DemoAnalyses ==
    [a \in DemoContracts |->
        [id |-> a, contractId |-> a, summary |-> Summary,
         riskyClauseIndices |-> <<1, 3>>,
         fullAnalysis |-> [riskLevel |-> DemoRiskScore[a]]]]

\* two risky clauses for each demo contract of high or medium risk
DemoRiskyClauses ==
    (1 :> [id |-> 1, analysisId |-> 1, clauseIndex |-> 1, riskLevel |-> "high"]) @@
    (2 :> [id |-> 2, analysisId |-> 1, clauseIndex |-> 3, riskLevel |-> "medium"]) @@
    (3 :> [id |-> 3, analysisId |-> 3, clauseIndex |-> 1, riskLevel |-> "high"]) @@
    (4 :> [id |-> 4, analysisId |-> 3, clauseIndex |-> 3, riskLevel |-> "medium"]) @@
    (5 :> [id |-> 5, analysisId |-> 4, clauseIndex |-> 1, riskLevel |-> "high"]) @@
    (6 :> [id |-> 6, analysisId |-> 4, clauseIndex |-> 3, riskLevel |-> "medium"])

\* a document of two numbered clauses: termination on 30 days' notice, and
\* confidentiality
T_TwoClauses ==
    <<"1", ".", " ", "T", "e", "r", "m", "i", "n", "a", "t", "i",
      "o", "n", ".", " ", "E", "i", "t", "h", "e", "r", " ", "p",
      "a", "r", "t", "y", " ", "m", "a", "y", " ", "t", "e", "r",
      "m", "i", "n", "a", "t", "e", " ", "t", "h", "i", "s", " ",
      "A", "g", "r", "e", "e", "m", "e", "n", "t", " ", "u", "p",
      "o", "n", " ", "3", "0", " ", "d", "a", "y", "s", "'", " ",
      "n", "o", "t", "i", "c", "e", ".", " ", "2", ".", " ", "C",
      "o", "n", "f", "i", "d", "e", "n", "t", "i", "a", "l", "i",
      "t", "y", ".", " ", "E", "a", "c", "h", " ", "p", "a", "r",
      "t", "y", " ", "s", "h", "a", "l", "l", " ", "p", "r", "o",
      "t", "e", "c", "t", " ", "C", "o", "n", "f", "i", "d", "e",
      "n", "t", "i", "a", "l", " ", "I", "n", "f", "o", "r", "m",
      "a", "t", "i", "o", "n", ".">>

\* a text with a medium and a high keyword, in this order
T_PaymentTermination ==
    <<"P", "a", "y", "m", "e", "n", "t", " ", "T", "e", "r", "m",
      "i", "n", "a", "t", "i", "o", "n">>

T_Termination ==
    <<"T", "e", "r", "m", "i", "n", "a", "t", "i", "o", "n">>

(***************************************************************************)
(* Inputs.                                                                 *)
(***************************************************************************)
Questions ==
    {JsUndefined, JsString(<<>>), JsString(Q_Blank), JsString(Q_Terminate), JsNumber}

\* :id of POST /api/conversation/:id/message
ConversationIds == {1, 2}

\* contractId of a body: 0 is falsy, 1 is stored, 9 is not
ContractIds == {0, 1, 9}

CreateMessages == {<<>>, DirectPair}

Q_Payment ==
    <<"P", "a", "y", "m", "e", "n", "t", "?">>
Q_Damages ==
    <<"D", "a", "m", "a", "g", "e", "s">>

\* questions for each branch of answerContractQuestion, and for none
BranchQuestions ==
    {JsString(DemoQ1), JsString(Q_Terminate), JsString(DemoQ2),
     JsString(Q_Payment), JsString(K_invoice), JsString(K_liability),
     JsString(Q_Damages), JsString(Q_Blank)}

\* `text` of POST /api/analyze-contract: missing, empty, blank, of high risk,
\* of medium risk, of both, the two clauses, and no string
Texts ==
    {JsUndefined, JsString(<<>>), JsString(Q_Blank), JsString(T_Termination),
     JsString(K_payment), JsString(T_PaymentTermination),
     JsString(T_TwoClauses), JsNumber}

\* 'new@example.com' and 'Demo@example.com'
E_New ==
    << "n", "e", "w", "@", "e", "x", "a", "m", "p", "l", "e", ".", "c", "o",
       "m" >>
E_DemoUpper ==
    << "D", "e", "m", "o", "@", "e", "x", "a", "m", "p", "l", "e", ".", "c",
       "o", "m" >>

\* bodies of POST /api/auth/register: a new email, the email of the demo
\* user, that email in another case, and a body with no email
RegisterBodies ==
    {[email |-> E_New, password |-> "secret"],
     [email |-> E_Demo, password |-> "secret"],
     [email |-> E_DemoUpper, password |-> "secret"],
     [password |-> "secret"]}

\* :id of PATCH /api/user/:id: the demo user and no user
UserIds == {1, 9}

\* bodies of PATCH /api/user/:id: with no password, with a password, with
\* the empty string as password
PatchBodies ==
    {[planType |-> "free"],
     [password |-> "hacked"],
     [password |-> "hacked", planType |-> "free"],
     [password |-> ""]}

(***************************************************************************)
(* State.                                                                  *)
(***************************************************************************)
VARIABLES
    contracts,            \* id -> stored contract
    conversations,        \* id -> stored conversation
    nextConversationId,   \* the id the next stored conversation gets
    users,                \* id -> stored user
    nextUserId,           \* the id the next stored user gets
    analyses,             \* id -> stored analysis
    nextAnalysisId,       \* the id the next stored analysis gets
    riskyClauses,         \* id -> stored risky clause
    nextRiskyClauseId,    \* the id the next stored risky clause gets
    user,                 \* browser: the `user` state of AuthProvider
    isLoading,            \* browser: the `isLoading` state of AuthProvider
    localStorage,         \* browser: what is saved under smartclause_user
    location,             \* browser: the path wouter routes on
    effectDue,            \* browser: the effect of ProtectedRoute has to run
    req                   \* the requests: where each handler is, and its locals

vars ==
    <<contracts, conversations, nextConversationId, users, nextUserId,
      analyses, nextAnalysisId, riskyClauses, nextRiskyClauseId, user, isLoading,
      localStorage, location, effectDue, req>>

\* the state of the page in the browser
clientVars == <<user, isLoading, localStorage, location, effectDue>>

\* what the analysis routes write
analysisVars == <<users, analyses, nextAnalysisId, riskyClauses, nextRiskyClauseId>>

NoBody == [id |-> 0, userId |-> 0, contractId |-> 0, messages |-> <<>>, answer |-> <<>>]

\* an object with no field
NoUserData == [f \in {} |-> ""]

Idle ==
    [kind |-> "none", pc |-> "idle", id |-> 0, question |-> JsUndefined,
     messages |-> <<>>, result |-> NoResult, analysis |-> 0, clause |-> 0,
     status |-> 0, body |-> NoBody, error |-> "none",
     userData |-> NoUserData]

Init ==
    /\ contracts = DemoContractRows
    /\ conversations = (1 :> DemoConversation)
    /\ nextConversationId = 2
    /\ users = (1 :> DemoUser)
    /\ nextUserId = 2
    /\ analyses = DemoAnalyses
    /\ nextAnalysisId = 5
    /\ riskyClauses = DemoRiskyClauses
    /\ nextRiskyClauseId = 7
    /\ user = "null"
    /\ isLoading = TRUE
    /\ localStorage = "none"
    /\ location = "/login"
    /\ effectDue = FALSE
    /\ req = [r \in Req |-> Idle]

\* requests arrive one after the other; their handlers overlap
CanStart(r) ==
    /\ req[r].pc = "idle"
    /\ IF r = 1 THEN TRUE ELSE req[r - 1].pc # "idle"

\* res.status(status).json(body): the handler has returned.  Of a finished
\* request only the response is kept, and for an ask the :id of its URL.
Respond(r, status, body) ==
    req' = [req EXCEPT ![r] =
        [Idle EXCEPT !.kind = req[r].kind, !.pc = "done",
                     !.id = IF req[r].kind = "ask" THEN req[r].id ELSE 0,
                     !.status = status, !.body = body]]

\* an exception reaches the handler's catch, which answers 500 (400 for a
\* ZodError): "storage" is a rejected storage call, "TypeError" a throw of
\* answerContractQuestion
Catch(r, error) ==
    req' = [req EXCEPT ![r] =
        [Idle EXCEPT !.kind = req[r].kind, !.pc = "done",
                     !.id = IF req[r].kind = "ask" THEN req[r].id ELSE 0,
                     !.status = IF error = "ZodError" THEN 400 ELSE 500,
                     !.error = error]]

\* the handler of request r starts with these inputs and runs to its first
\* await (`next`), or answers `status` before it
Begin(r, kind, id, question, messages, status, next) ==
    IF status # 0
        THEN req' = [req EXCEPT ![r] =
                [Idle EXCEPT !.kind = kind, !.pc = "done",
                             !.id = IF kind = "ask" THEN id ELSE 0,
                             !.status = status,
                             !.error = IF kind = "create" THEN "ZodError" ELSE "none"]]
        ELSE req' = [req EXCEPT ![r] =
                [Idle EXCEPT !.kind = kind, !.pc = next, !.id = id,
                             !.question = question, !.messages = messages]]

ConversationBody(c) ==
    [id |-> c.id, userId |-> c.userId, contractId |-> c.contractId,
     messages |-> c.messages, answer |-> <<>>]

(***************************************************************************)
(* Storage.                                                                *)
(***************************************************************************)
getConversation(id) ==
    IF id \in DOMAIN conversations THEN {conversations[id]} ELSE {}

\* mutant: the row keeps its messages and the new list is added after them
updateConversation_Appends(id, messages) ==
    IF id \in DOMAIN conversations
        THEN [conversations EXCEPT ![id].messages = @ \o messages]
        ELSE conversations

\* mutant: the UPDATE has no WHERE and sets the messages of every row
updateConversation_AllRows(id, messages) ==
    IF id \in DOMAIN conversations
        THEN [c \in DOMAIN conversations |->
                [conversations[c] EXCEPT !.messages = messages]]
        ELSE conversations

updateConversation(id, messages) ==
    IF id \in DOMAIN conversations
        THEN [conversations EXCEPT ![id].messages = messages]
        ELSE conversations

(***************************************************************************)
(* POST /api/conversation/:id/message                                      *)
(***************************************************************************)
\* mutant: the answer is pushed before the question
UpdatedMessages_AnswerFirst(r, read, question) ==
    read \o << Message(AiMsgId(r), "assistant", answerContractQuestion(question)),
               Message(UserMsgId(r), "user", question.s) >>

\* updatedMessages of the handler: the list read, the question, the answer
UpdatedMessages(r, read, question) ==
    read \o << Message(UserMsgId(r), "user", question.s),
               Message(AiMsgId(r), "assistant", answerContractQuestion(question)) >>

\* the handler up to `await storage.getConversation(conversationId)`
AskStart(r) ==
    /\ CanStart(r)
    /\ \E id \in ConversationIds, question \in Questions :
        Begin(r, "ask", id, question, <<>>,
              IF Falsy(question) THEN 400 ELSE 0, "ask_get")
    /\ UNCHANGED <<contracts, conversations, nextConversationId>>
    /\ UNCHANGED nextUserId
    /\ UNCHANGED clientVars
    /\ UNCHANGED analysisVars

\* mutant: the check `if (!conversation)` is missing, and reading
\* conversation.messages of undefined throws
AskGet_NoCheck(r) ==
    /\ req[r].pc = "ask_get"
    /\ LET found == getConversation(req[r].id) IN
        IF found = {} \/ answerThrows(req[r].question)
            THEN Catch(r, "TypeError")
        ELSE LET conversation == CHOOSE c \in found : TRUE IN
            req' = [req EXCEPT ![r].pc = "ask_update",
                       ![r].messages =
                           UpdatedMessages(r, conversation.messages, req[r].question)]
    /\ UNCHANGED <<contracts, conversations, nextConversationId>>
    /\ UNCHANGED nextUserId
    /\ UNCHANGED clientVars
    /\ UNCHANGED analysisVars

\* mutant: the question is stored as soon as the conversation is read, the
\* answer with the later update
AskGet_StoresQuestion(r) ==
    /\ req[r].pc = "ask_get"
    /\ LET found == getConversation(req[r].id) IN
        IF found = {}
            THEN Respond(r, 404, NoBody) /\ UNCHANGED conversations
        ELSE IF answerThrows(req[r].question)
            THEN Catch(r, "TypeError") /\ UNCHANGED conversations
        ELSE LET conversation == CHOOSE c \in found : TRUE IN
            /\ req' = [req EXCEPT ![r].pc = "ask_update",
                         ![r].messages =
                            UpdatedMessages(r, conversation.messages, req[r].question)]
            /\ conversations' = updateConversation(req[r].id,
                    Append(conversation.messages,
                           Message(UserMsgId(r), "user", req[r].question.s)))
    /\ UNCHANGED <<contracts, nextConversationId>>
    /\ UNCHANGED nextUserId
    /\ UNCHANGED clientVars
    /\ UNCHANGED analysisVars

\* getConversation answers; the handler runs up to
\* `await storage.updateConversation(conversationId, updatedMessages)`
AskGet(r) ==
    /\ req[r].pc = "ask_get"
    /\ LET found == getConversation(req[r].id) IN
        IF found = {}
            THEN Respond(r, 404, NoBody)
        ELSE IF answerThrows(req[r].question)
            THEN Catch(r, "TypeError")
        ELSE LET conversation == CHOOSE c \in found : TRUE IN
            req' = [req EXCEPT ![r].pc = "ask_update",
                       ![r].messages =
                           UpdatedMessages(r, conversation.messages, req[r].question)]
    /\ UNCHANGED <<contracts, conversations, nextConversationId>>
    /\ UNCHANGED nextUserId
    /\ UNCHANGED clientVars
    /\ UNCHANGED analysisVars

\* updateConversation takes effect and the handler answers 200
AskUpdate(r) ==
    /\ req[r].pc = "ask_update"
    /\ conversations' = updateConversation(req[r].id, req[r].messages)
    /\ Respond(r, 200, ConversationBody(conversations'[req[r].id]))
    /\ UNCHANGED <<contracts, nextConversationId>>
    /\ UNCHANGED nextUserId
    /\ UNCHANGED clientVars
    /\ UNCHANGED analysisVars

\* mutant: the update that rejects has stored the list up to the question
AskStorageFails_QuestionStored(r) ==
    /\ req[r].pc \in {"ask_get", "ask_update"}
    /\ conversations' =
            IF req[r].pc = "ask_update"
                THEN updateConversation(req[r].id,
                        SubSeq(req[r].messages, 1, Len(req[r].messages) - 1))
                ELSE conversations
    /\ Catch(r, "storage")
    /\ UNCHANGED <<contracts, nextConversationId>>
    /\ UNCHANGED nextUserId
    /\ UNCHANGED clientVars
    /\ UNCHANGED analysisVars

\* a storage call of the handler rejects: catch answers 500
AskStorageFails(r) ==
    /\ req[r].pc \in {"ask_get", "ask_update"}
    /\ Catch(r, "storage")
    /\ UNCHANGED <<contracts, conversations, nextConversationId>>
    /\ UNCHANGED nextUserId
    /\ UNCHANGED clientVars
    /\ UNCHANGED analysisVars

(***************************************************************************)
(* POST /api/conversation                                                  *)
(***************************************************************************)
\* mutant: a new conversation always starts with no messages
createConversation_Empty(insertConversation) ==
    (nextConversationId :>
        [id |-> nextConversationId,
         userId |-> insertConversation.userId,
         contractId |-> insertConversation.contractId,
         messages |-> <<>>]) @@ conversations

\* MemStorage.createConversation / the INSERT of DatabaseStorage: the row is
\* the parsed body plus the next id; contract_id is a plain integer column
createConversation(insertConversation) ==
    (nextConversationId :>
        [id |-> nextConversationId,
         userId |-> insertConversation.userId,
         contractId |-> insertConversation.contractId,
         messages |-> insertConversation.messages]) @@ conversations

\* the handler up to `await storage.createConversation(conversationData)`;
\* a body insertConversationSchema rejects is answered 400
CreateStart(r) ==
    /\ CanStart(r)
    /\ \/ Begin(r, "create", 0, JsUndefined, <<>>, 400, "create_insert")
       \/ \E contractId \in ContractIds \ {0}, messages \in CreateMessages :
            Begin(r, "create", contractId, JsUndefined, messages, 0, "create_insert")
    /\ UNCHANGED <<contracts, conversations, nextConversationId>>
    /\ UNCHANGED nextUserId
    /\ UNCHANGED clientVars
    /\ UNCHANGED analysisVars

\* createConversation takes effect and the handler answers 201
CreateInsert(r) ==
    /\ req[r].pc = "create_insert"
    /\ conversations' = createConversation(
            [userId |-> 1, contractId |-> req[r].id, messages |-> req[r].messages])
    /\ nextConversationId' = nextConversationId + 1
    /\ Respond(r, 201, ConversationBody(conversations'[nextConversationId]))
    /\ UNCHANGED contracts
    /\ UNCHANGED nextUserId
    /\ UNCHANGED clientVars
    /\ UNCHANGED analysisVars

CreateStorageFails(r) ==
    /\ req[r].pc = "create_insert"
    /\ Catch(r, "storage")
    /\ UNCHANGED <<contracts, conversations, nextConversationId>>
    /\ UNCHANGED nextUserId
    /\ UNCHANGED clientVars
    /\ UNCHANGED analysisVars

(***************************************************************************)
(* POST /api/contract-qa                                                   *)
(***************************************************************************)
getContract(id) == IF id \in DOMAIN contracts THEN {contracts[id]} ELSE {}

\* the handler up to `await storage.getContract(parseInt(contractId))`
QAStart(r) ==
    /\ CanStart(r)
    /\ \E contractId \in ContractIds, question \in Questions :
        Begin(r, "qa", contractId, question, <<>>,
              IF contractId = 0 \/ Falsy(question) THEN 400 ELSE 0, "qa_get")
    /\ UNCHANGED <<contracts, conversations, nextConversationId>>
    /\ UNCHANGED nextUserId
    /\ UNCHANGED clientVars
    /\ UNCHANGED analysisVars

\* the same stretch of the handler, for the questions of every branch
QAStartBranch(r) ==
    /\ CanStart(r)
    /\ \E contractId \in ContractIds, question \in BranchQuestions :
        Begin(r, "qa", contractId, question, <<>>,
              IF contractId = 0 \/ Falsy(question) THEN 400 ELSE 0, "qa_get")
    /\ UNCHANGED <<contracts, conversations, nextConversationId>>
    /\ UNCHANGED nextUserId
    /\ UNCHANGED clientVars
    /\ UNCHANGED analysisVars

\* mutant: the answered question is saved as a conversation of the contract
QAGet_SavesTurn(r) ==
    /\ req[r].pc = "qa_get"
    /\ IF getContract(req[r].id) = {}
            THEN Respond(r, 404, NoBody)
                 /\ UNCHANGED <<conversations, nextConversationId>>
       ELSE IF answerThrows(req[r].question)
            THEN Catch(r, "TypeError")
                 /\ UNCHANGED <<conversations, nextConversationId>>
       ELSE /\ Respond(r, 200,
                    [NoBody EXCEPT !.answer = answerContractQuestion(req[r].question)])
            /\ conversations' = createConversation(
                    [userId |-> 1, contractId |-> req[r].id,
                     messages |-> UpdatedMessages(r, <<>>, req[r].question)])
            /\ nextConversationId' = nextConversationId + 1
    /\ UNCHANGED contracts
    /\ UNCHANGED nextUserId
    /\ UNCHANGED clientVars
    /\ UNCHANGED analysisVars

\* mutant: the direct route answers without looking at the question
QAGet_DefaultAnswer(r) ==
    /\ req[r].pc = "qa_get"
    /\ IF getContract(req[r].id) = {}
            THEN Respond(r, 404, NoBody)
       ELSE IF answerThrows(req[r].question)
            THEN Catch(r, "TypeError")
       ELSE Respond(r, 200, [NoBody EXCEPT !.answer = A_Default])
    /\ UNCHANGED <<contracts, conversations, nextConversationId>>
    /\ UNCHANGED nextUserId
    /\ UNCHANGED clientVars
    /\ UNCHANGED analysisVars

\* getContract answers; the handler generates the answer and responds
QAGet(r) ==
    /\ req[r].pc = "qa_get"
    /\ IF getContract(req[r].id) = {}
            THEN Respond(r, 404, NoBody)
       ELSE IF answerThrows(req[r].question)
            THEN Catch(r, "TypeError")
       ELSE Respond(r, 200, [NoBody EXCEPT !.answer = answerContractQuestion(req[r].question)])
    /\ UNCHANGED <<contracts, conversations, nextConversationId>>
    /\ UNCHANGED nextUserId
    /\ UNCHANGED clientVars
    /\ UNCHANGED analysisVars

QAStorageFails(r) ==
    /\ req[r].pc = "qa_get"
    /\ Catch(r, "storage")
    /\ UNCHANGED <<contracts, conversations, nextConversationId>>
    /\ UNCHANGED nextUserId
    /\ UNCHANGED clientVars
    /\ UNCHANGED analysisVars

(***************************************************************************)
(* Storage of analyses, risky clauses and users.                           *)
(***************************************************************************)
\* mutant: the new analysis takes the place of the earlier ones of its
\* contract, which are deleted
createAnalysis_Supersedes(insertAnalysis) ==
    LET kept == {a \in DOMAIN analyses :
                    analyses[a].contractId # insertAnalysis.contractId}
    IN  (nextAnalysisId :>
            [id |-> nextAnalysisId,
             contractId |-> insertAnalysis.contractId,
             summary |-> insertAnalysis.summary,
             riskyClauseIndices |-> insertAnalysis.riskyClauseIndices,
             fullAnalysis |-> insertAnalysis.fullAnalysis])
        @@ [a \in kept |-> analyses[a]]

\* MemStorage.createAnalysis / the INSERT of DatabaseStorage: the row is the
\* argument plus the next id
createAnalysis(insertAnalysis) ==
    (nextAnalysisId :>
        [id |-> nextAnalysisId,
         contractId |-> insertAnalysis.contractId,
         summary |-> insertAnalysis.summary,
         riskyClauseIndices |-> insertAnalysis.riskyClauseIndices,
         fullAnalysis |-> insertAnalysis.fullAnalysis]) @@ analyses

\* the rows the lookup can answer with.  DatabaseStorage selects by
\* contract_id with no ORDER BY and takes the first row of the result, in
\* whatever order the database gives; MemStorage takes the first in
\* insertion order, which is one of them
getAnalysisByContractId(contractId) ==
    {analyses[a] : a \in {b \in DOMAIN analyses : analyses[b].contractId = contractId}}

createRiskyClause(insertClause) ==
    (nextRiskyClauseId :>
        [id |-> nextRiskyClauseId,
         analysisId |-> insertClause.analysisId,
         clauseIndex |-> insertClause.clauseIndex,
         riskLevel |-> insertClause.riskLevel]) @@ riskyClauses

getRiskyClausesByAnalysisId(analysisId) ==
    {riskyClauses[k] : k \in {j \in DOMAIN riskyClauses :
                                    riskyClauses[j].analysisId = analysisId}}

\* MemStorage.updateUser: { ...user, ...userData } replaces the user of that
\* id, if there is one; userData is a record of the fields it has.  (users
\* has no column riskScore: when DatabaseStorage is given { riskScore } the
\* call rejects, which is one of the storage faults of the handler.)
updateUser(id, userData) ==
    IF id \in DOMAIN users
        THEN [users EXCEPT ![id] = userData @@ users[id]]
        ELSE users

(***************************************************************************)
(* POST /api/analyze-contract                                              *)
(***************************************************************************)
\* res.json(analysis): the id and the contract of the row
AnalysisBody(a) == [NoBody EXCEPT !.id = a.id, !.contractId = a.contractId]

Includes(indices, x) == \E i \in 1..Len(indices) : indices[i] = x

\* the loop over mockRiskyClauses from position `from` on: the position of
\* the next clause the handler stores, 0 when it stores no more
NextClause(indices, from) ==
    LET todo == {k \in from..Len(mockRiskyClauses) :
                    Includes(indices, mockRiskyClauses[k].clauseIndex)}
    IN  IF Len(indices) > 0 /\ todo # {}
            THEN CHOOSE k \in todo : \A j \in todo : k <= j
            ELSE 0

\* the handler runs on to its next createRiskyClause, or answers 200 with
\* the analysis row createAnalysis returned
Continue(r, from) ==
    LET k == NextClause(req[r].result.riskyClauseIndices, from) IN
    IF k = 0
        THEN Respond(r, 200, AnalysisBody(analyses[req[r].analysis]))
        ELSE req' = [req EXCEPT ![r].pc = "an_clause", ![r].clause = k]

\* the handler up to `await storage.getContract(parseInt(contractId))`
AnalyzeStart(r) ==
    /\ CanStart(r)
    /\ \E contractId \in ContractIds, text \in Texts :
        Begin(r, "analyze", contractId, text, <<>>,
              IF contractId = 0 \/ Falsy(text) THEN 400 ELSE 0, "an_get")
    /\ UNCHANGED <<contracts, conversations, nextConversationId>>
    /\ UNCHANGED nextUserId
    /\ UNCHANGED clientVars
    /\ UNCHANGED analysisVars

\* getContract answers; analyzeContract runs; the handler calls createAnalysis
AnalyzeGetContract(r) ==
    /\ req[r].pc = "an_get"
    /\ IF getContract(req[r].id) = {}
            THEN Respond(r, 404, NoBody)
       ELSE IF analyzeThrows(req[r].question)
            THEN Catch(r, "TypeError")
       ELSE req' = [req EXCEPT ![r].pc = "an_create",
                               ![r].result = analyzeContract(req[r].question)]
    /\ UNCHANGED <<contracts, conversations, nextConversationId>>
    /\ UNCHANGED nextUserId
    /\ UNCHANGED clientVars
    /\ UNCHANGED analysisVars

\* createAnalysis takes effect; the handler calls updateUser
AnalyzeCreateAnalysis(r) ==
    /\ req[r].pc = "an_create"
    /\ analyses' = createAnalysis(
            [contractId |-> req[r].id,
             summary |-> req[r].result.summary,
             riskyClauseIndices |-> req[r].result.riskyClauseIndices,
             fullAnalysis |-> req[r].result.fullAnalysis])
    /\ nextAnalysisId' = nextAnalysisId + 1
    /\ req' = [req EXCEPT ![r].pc = "an_user", ![r].analysis = nextAnalysisId]
    /\ UNCHANGED <<contracts, conversations, nextConversationId>>
    /\ UNCHANGED nextUserId
    /\ UNCHANGED clientVars
    /\ UNCHANGED <<users, riskyClauses, nextRiskyClauseId>>

\* storage.updateUser(contract.id, { riskScore }) takes effect: the user
\* whose id is the contract's id; the handler goes on to the risky clauses
AnalyzeUpdateUser(r) ==
    /\ req[r].pc = "an_user"
    /\ users' = updateUser(req[r].id, [riskScore |-> req[r].result.riskScore])
    /\ Continue(r, 1)
    /\ UNCHANGED <<contracts, conversations, nextConversationId>>
    /\ UNCHANGED nextUserId
    /\ UNCHANGED clientVars
    /\ UNCHANGED <<analyses, nextAnalysisId, riskyClauses, nextRiskyClauseId>>

\* mutant: the risky clause is stored under the id of the contract
AnalyzeCreateRiskyClause_ContractId(r) ==
    /\ req[r].pc = "an_clause"
    /\ riskyClauses' = createRiskyClause(
            [analysisId |-> req[r].id,
             clauseIndex |-> mockRiskyClauses[req[r].clause].clauseIndex,
             riskLevel |-> mockRiskyClauses[req[r].clause].riskLevel])
    /\ nextRiskyClauseId' = nextRiskyClauseId + 1
    /\ Continue(r, req[r].clause + 1)
    /\ UNCHANGED <<contracts, conversations, nextConversationId>>
    /\ UNCHANGED nextUserId
    /\ UNCHANGED clientVars
    /\ UNCHANGED <<users, analyses, nextAnalysisId>>

\* createRiskyClause({ analysisId: analysis.id, ...clauseInfo }) takes effect
AnalyzeCreateRiskyClause(r) ==
    /\ req[r].pc = "an_clause"
    /\ riskyClauses' = createRiskyClause(
            [analysisId |-> req[r].analysis,
             clauseIndex |-> mockRiskyClauses[req[r].clause].clauseIndex,
             riskLevel |-> mockRiskyClauses[req[r].clause].riskLevel])
    /\ nextRiskyClauseId' = nextRiskyClauseId + 1
    /\ Continue(r, req[r].clause + 1)
    /\ UNCHANGED <<contracts, conversations, nextConversationId>>
    /\ UNCHANGED nextUserId
    /\ UNCHANGED clientVars
    /\ UNCHANGED <<users, analyses, nextAnalysisId>>

\* a storage call of the handler rejects: catch answers 500
AnalyzeStorageFails(r) ==
    /\ req[r].pc \in {"an_get", "an_create", "an_user", "an_clause"}
    /\ Catch(r, "storage")
    /\ UNCHANGED <<contracts, conversations, nextConversationId>>
    /\ UNCHANGED nextUserId
    /\ UNCHANGED clientVars
    /\ UNCHANGED analysisVars

(***************************************************************************)
(* GET /api/analysis/contract/:contractId                                  *)
(***************************************************************************)
\* the handler up to `await storage.getAnalysisByContractId(contractId)`
GetAnalysisStart(r) ==
    /\ CanStart(r)
    /\ \E contractId \in ContractIds :
        Begin(r, "get_analysis", contractId, JsUndefined, <<>>, 0, "ga_get")
    /\ UNCHANGED <<contracts, conversations, nextConversationId>>
    /\ UNCHANGED nextUserId
    /\ UNCHANGED clientVars
    /\ UNCHANGED analysisVars

\* the lookup answers and the handler responds
GetAnalysisRead(r) ==
    /\ req[r].pc = "ga_get"
    /\ LET found == getAnalysisByContractId(req[r].id) IN
        IF found = {}
            THEN Respond(r, 404, NoBody)
            ELSE \E analysis \in found : Respond(r, 200, AnalysisBody(analysis))
    /\ UNCHANGED <<contracts, conversations, nextConversationId>>
    /\ UNCHANGED nextUserId
    /\ UNCHANGED clientVars
    /\ UNCHANGED analysisVars

GetAnalysisStorageFails(r) ==
    /\ req[r].pc = "ga_get"
    /\ Catch(r, "storage")
    /\ UNCHANGED <<contracts, conversations, nextConversationId>>
    /\ UNCHANGED nextUserId
    /\ UNCHANGED clientVars
    /\ UNCHANGED analysisVars

(***************************************************************************)
(* The page in the browser: AuthProvider, Router and ProtectedRoute.  A    *)
(* handler or effect and the render that follows it are one step; an       *)
(* effect runs in a later step than the render that scheduled it.          *)
(***************************************************************************)
\* the paths Router knows, and one it does not
ProtectedPaths == {"/", "/dashboard", "/analyzer", "/generator", "/qa", "/account"}

Locations == ProtectedPaths \cup {"/login", "/signup", "/other"}

\* the users the server can answer a login or a signup with
SavedUsers == {"demo", "new"}

\* React runs the effects a render scheduled before it handles an event
Settled == ~isLoading /\ ~effectDue

\* contextValue.isAuthenticated: !!user
isAuthenticated(u) == u # "null"

\* mutant: a route that only waits for the loading to end
ProtectedRoute_NoAuthCheck(loading, authenticated) ==
    IF loading THEN "spinner" ELSE "Component"

\* what ProtectedRoute returns
ProtectedRoute(loading, authenticated) ==
    IF loading THEN "spinner"
    ELSE IF ~authenticated THEN "null"
    ELSE "Component"

\* what Router shows at a path, in a state of the AuthProvider
Router(path, loading, u) ==
    IF path = "/login" THEN "Login"
    ELSE IF path = "/signup" THEN "Signup"
    ELSE IF path \in ProtectedPaths
        THEN ProtectedRoute(loading, isAuthenticated(u))
    ELSE "NotFound"

\* the effect of ProtectedRoute is scheduled again when the route mounts
\* and when isLoading or isAuthenticated changed under a mounted route; it
\* is dropped when the route unmounts
EffectAfter(path, loading, u) ==
    IF path \notin ProtectedPaths THEN FALSE
    ELSE IF location \notin ProtectedPaths THEN TRUE
    ELSE IF loading # isLoading \/ isAuthenticated(u) # isAuthenticated(user)
        THEN TRUE
    ELSE effectDue

\* the effect of AuthProvider: loadUser.  A saved value JSON.parse rejects
\* is removed.
LoadUser ==
    /\ isLoading
    /\ user' = IF localStorage \in SavedUsers THEN localStorage ELSE user
    /\ localStorage' = IF localStorage = "corrupt" THEN "none" ELSE localStorage
    /\ isLoading' = FALSE
    /\ effectDue' = EffectAfter(location, FALSE, user')
    /\ UNCHANGED <<location, req>>
    /\ UNCHANGED <<contracts, conversations, nextConversationId>>
    /\ UNCHANGED nextUserId
    /\ UNCHANGED analysisVars

\* the effect of ProtectedRoute
RunEffect ==
    /\ effectDue
    /\ location' = IF ~isLoading /\ ~isAuthenticated(user) THEN "/login" ELSE location
    /\ effectDue' = FALSE
    /\ UNCHANGED <<user, isLoading, localStorage, req>>
    /\ UNCHANGED <<contracts, conversations, nextConversationId>>
    /\ UNCHANGED nextUserId
    /\ UNCHANGED analysisVars

\* onSuccess of the login and signup pages: login(data.user), then
\* setLocation('/dashboard')
Login ==
    /\ Settled
    /\ location \in {"/login", "/signup"}
    /\ \E userData \in SavedUsers :
        /\ user' = userData
        /\ localStorage' = userData
        /\ effectDue' = EffectAfter("/dashboard", isLoading, userData)
    /\ location' = "/dashboard"
    /\ UNCHANGED <<isLoading, req>>
    /\ UNCHANGED <<contracts, conversations, nextConversationId>>
    /\ UNCHANGED nextUserId
    /\ UNCHANGED analysisVars

\* the log-out button of the Sidebar, which AuthenticatedLayout shows
Logout ==
    /\ Settled
    /\ location \in ProtectedPaths
    /\ user' = "null"
    /\ localStorage' = "none"
    /\ effectDue' = EffectAfter(location, isLoading, "null")
    /\ UNCHANGED <<isLoading, location, req>>
    /\ UNCHANGED <<contracts, conversations, nextConversationId>>
    /\ UNCHANGED nextUserId
    /\ UNCHANGED analysisVars

\* a link, or history.pushState: wouter routes on the new path
Navigate ==
    /\ Settled
    /\ \E path \in Locations \ {location} :
        /\ location' = path
        /\ effectDue' = EffectAfter(path, isLoading, user)
    /\ UNCHANGED <<user, isLoading, localStorage, req>>
    /\ UNCHANGED <<contracts, conversations, nextConversationId>>
    /\ UNCHANGED nextUserId
    /\ UNCHANGED analysisVars

\* login or logout in another tab of the browser: the saved value changes;
\* AuthProvider reads it only in loadUser and does not notice
OtherTab ==
    /\ \E saved \in (SavedUsers \cup {"none"}) \ {localStorage} :
        localStorage' = saved
    /\ UNCHANGED <<user, isLoading, location, effectDue, req>>
    /\ UNCHANGED <<contracts, conversations, nextConversationId>>
    /\ UNCHANGED nextUserId
    /\ UNCHANGED analysisVars

\* the page is opened at any path, with anything saved by an earlier visit
InitClient ==
    /\ contracts = DemoContractRows
    /\ conversations = (1 :> DemoConversation)
    /\ nextConversationId = 2
    /\ users = (1 :> DemoUser)
    /\ nextUserId = 2
    /\ analyses = DemoAnalyses
    /\ nextAnalysisId = 5
    /\ riskyClauses = DemoRiskyClauses
    /\ nextRiskyClauseId = 7
    /\ user = "null"
    /\ isLoading = TRUE
    /\ localStorage \in SavedUsers \cup {"none", "corrupt"}
    /\ location \in Locations
    /\ effectDue = (location \in ProtectedPaths)
    /\ req = [r \in Req |-> Idle]

NextClient ==
    \/ LoadUser
    \/ RunEffect
    \/ Login
    \/ Logout
    \/ Navigate
    \/ OtherTab

\* React runs a scheduled effect
SpecClient == InitClient /\ [][NextClient]_vars /\ WF_vars(RunEffect)

(***************************************************************************)
(* POST /api/auth/register                                                 *)
(***************************************************************************)
\* insertUserSchema.parse: email and password are required
insertUserSchema(body) == {"email", "password"} \subseteq DOMAIN body

\* MemStorage.getUserByEmail: the users whose email is the given one, both
\* in lower case
getUserByEmail(email) ==
    {users[u] : u \in {v \in DOMAIN users :
                        toLowerCase(users[v].email) = toLowerCase(email)}}

\* bcrypt.hash: a string that is not the password
hashPassword(password) == "$2a$10$" \o password

\* MemStorage.createUser: the row gets the next id (createdAt and apiKey are
\* read by nothing)
createUser(insertUser) ==
    (nextUserId :> ([id |-> nextUserId] @@ insertUser)) @@ users

\* the handler up to `await storage.getUserByEmail(userData.email)`; a body
\* the schema rejects is answered 400
RegisterStart(r) ==
    /\ CanStart(r)
    /\ \E body \in RegisterBodies :
        IF insertUserSchema(body)
            THEN req' = [req EXCEPT ![r] =
                    [Idle EXCEPT !.kind = "register", !.pc = "reg_get",
                                 !.userData = body]]
            ELSE req' = [req EXCEPT ![r] =
                    [Idle EXCEPT !.kind = "register", !.pc = "done",
                                 !.status = 400, !.error = "ZodError"]]
    /\ UNCHANGED <<contracts, conversations, nextConversationId>>
    /\ UNCHANGED nextUserId
    /\ UNCHANGED clientVars
    /\ UNCHANGED analysisVars

\* the lookup answers: 400 if there is such a user, else the handler goes
\* on to `await hashPassword(userData.password)`
RegisterGetUser(r) ==
    /\ req[r].pc = "reg_get"
    /\ IF getUserByEmail(req[r].userData.email) # {}
        THEN Respond(r, 400, NoBody)
        ELSE req' = [req EXCEPT ![r].pc = "reg_hash"]
    /\ UNCHANGED <<contracts, conversations, nextConversationId>>
    /\ UNCHANGED nextUserId
    /\ UNCHANGED clientVars
    /\ UNCHANGED analysisVars

\* the hash is there: the handler calls storage.createUser with
\* { ...userData, password: hashedPassword }
RegisterHash(r) ==
    /\ req[r].pc = "reg_hash"
    /\ req' = [req EXCEPT ![r].pc = "reg_create",
                          ![r].userData =
                            [password |-> hashPassword(@.password)] @@ @]
    /\ UNCHANGED <<contracts, conversations, nextConversationId>>
    /\ UNCHANGED nextUserId
    /\ UNCHANGED clientVars
    /\ UNCHANGED analysisVars

\* createUser takes effect and the handler answers 201
RegisterCreateUser(r) ==
    /\ req[r].pc = "reg_create"
    /\ users' = createUser(req[r].userData)
    /\ nextUserId' = nextUserId + 1
    /\ Respond(r, 201, [NoBody EXCEPT !.id = nextUserId])
    /\ UNCHANGED <<contracts, conversations, nextConversationId>>
    /\ UNCHANGED clientVars
    /\ UNCHANGED <<analyses, nextAnalysisId, riskyClauses, nextRiskyClauseId>>

RegisterStorageFails(r) ==
    /\ req[r].pc \in {"reg_get", "reg_create"}
    /\ Catch(r, "storage")
    /\ UNCHANGED <<contracts, conversations, nextConversationId>>
    /\ UNCHANGED nextUserId
    /\ UNCHANGED clientVars
    /\ UNCHANGED analysisVars

(***************************************************************************)
(* PATCH /api/user/:id                                                     *)
(***************************************************************************)
\* `delete userData.password`
DeletePassword(userData) ==
    [f \in DOMAIN userData \ {"password"} |-> userData[f]]

\* `if (userData.password) { delete userData.password; }`: a missing
\* password and the empty string are falsy
WithoutPassword(userData) ==
    IF "password" \in DOMAIN userData /\ userData.password # ""
        THEN DeletePassword(userData)
        ELSE userData

\* the handler up to `await storage.updateUser(userId, userData)`
PatchUserStart(r) ==
    /\ CanStart(r)
    /\ \E userId \in UserIds, body \in PatchBodies :
        req' = [req EXCEPT ![r] =
            [Idle EXCEPT !.kind = "patch_user", !.pc = "pu_update",
                         !.id = userId, !.userData = WithoutPassword(body)]]
    /\ UNCHANGED <<contracts, conversations, nextConversationId>>
    /\ UNCHANGED nextUserId
    /\ UNCHANGED clientVars
    /\ UNCHANGED analysisVars

\* updateUser takes effect and the handler answers: 404 if there is no
\* such user
PatchUserUpdate(r) ==
    /\ req[r].pc = "pu_update"
    /\ users' = updateUser(req[r].id, req[r].userData)
    /\ IF req[r].id \in DOMAIN users
        THEN Respond(r, 200, [NoBody EXCEPT !.id = req[r].id])
        ELSE Respond(r, 404, NoBody)
    /\ UNCHANGED <<contracts, conversations, nextConversationId>>
    /\ UNCHANGED nextUserId
    /\ UNCHANGED clientVars
    /\ UNCHANGED <<analyses, nextAnalysisId, riskyClauses, nextRiskyClauseId>>

PatchUserStorageFails(r) ==
    /\ req[r].pc = "pu_update"
    /\ Catch(r, "storage")
    /\ UNCHANGED <<contracts, conversations, nextConversationId>>
    /\ UNCHANGED nextUserId
    /\ UNCHANGED clientVars
    /\ UNCHANGED analysisVars

(***************************************************************************)
(* DELETE /api/contract/:id                                                *)
(***************************************************************************)
\* MemStorage.deleteContract: Map.delete, which removes that entry and
\* nothing else
deleteContract(id) == [c \in DOMAIN contracts \ {id} |-> contracts[c]]

\* the handler up to `await storage.deleteContract(contractId)`
DeleteContractStart(r) ==
    /\ CanStart(r)
    /\ \E contractId \in ContractIds :
        Begin(r, "delete_contract", contractId, JsUndefined, <<>>, 0, "dc_delete")
    /\ UNCHANGED <<contracts, conversations, nextConversationId>>
    /\ UNCHANGED nextUserId
    /\ UNCHANGED clientVars
    /\ UNCHANGED analysisVars

\* deleteContract takes effect and the handler answers: 404 if Map.delete
\* found no such contract
DeleteContractDelete(r) ==
    /\ req[r].pc = "dc_delete"
    /\ contracts' = deleteContract(req[r].id)
    /\ IF req[r].id \in DOMAIN contracts
        THEN Respond(r, 200, NoBody)
        ELSE Respond(r, 404, NoBody)
    /\ UNCHANGED <<conversations, nextConversationId>>
    /\ UNCHANGED nextUserId
    /\ UNCHANGED clientVars
    /\ UNCHANGED analysisVars

DeleteContractStorageFails(r) ==
    /\ req[r].pc = "dc_delete"
    /\ Catch(r, "storage")
    /\ UNCHANGED <<contracts, conversations, nextConversationId>>
    /\ UNCHANGED nextUserId
    /\ UNCHANGED clientVars
    /\ UNCHANGED analysisVars

(***************************************************************************)
(* Specifications.   Spec: the two routes that write conversations, any     *)
(* number of them in flight.  SpecQA: direct Q&A beside the route that     *)
(* creates conversations.                                                  *)
(***************************************************************************)
Next ==
    \E r \in Req :
        \/ AskStart(r)
        \/ AskGet(r)
        \/ AskUpdate(r)
        \/ AskStorageFails(r)
        \/ CreateStart(r)
        \/ CreateInsert(r)
        \/ CreateStorageFails(r)

Spec == Init /\ [][Next]_vars

NextQA ==
    \E r \in Req :
        \/ QAStart(r)
        \/ QAGet(r)
        \/ QAStorageFails(r)
        \/ CreateStart(r)
        \/ CreateInsert(r)
        \/ CreateStorageFails(r)

SpecQA == Init /\ [][NextQA]_vars

\* no other handler is between its first await and its response
Alone(r) == \A q \in Req \ {r} : req[q].pc \in {"idle", "done"}

\* both ways of asking and the route that creates conversations, called one
\* at a time by a client that waits for each response, with storage calls
\* that answer
NextAskQA ==
    \E r \in Req :
        \/ Alone(r) /\ AskStart(r)
        \/ Alone(r) /\ AskGet(r)
        \/ Alone(r) /\ AskUpdate(r)
        \/ Alone(r) /\ QAStart(r)
        \/ Alone(r) /\ QAGet(r)
        \/ Alone(r) /\ CreateStart(r)
        \/ Alone(r) /\ CreateInsert(r)

SpecAskQA == Init /\ [][NextAskQA]_vars

\* the analysis routes, their handlers overlapping
NextAnalysis ==
    \E r \in AnalysisReq :
        \/ AnalyzeStart(r)
        \/ AnalyzeGetContract(r)
        \/ AnalyzeCreateAnalysis(r)
        \/ AnalyzeUpdateUser(r)
        \/ AnalyzeCreateRiskyClause(r)
        \/ AnalyzeStorageFails(r)
        \/ GetAnalysisStart(r)
        \/ GetAnalysisRead(r)
        \/ GetAnalysisStorageFails(r)

SpecAnalysis == Init /\ [][NextAnalysis]_vars

\* direct questions of every branch
NextAnswer ==
    \E r \in AnswerReq :
        \/ QAStartBranch(r)
        \/ QAGet(r)
        \/ QAStorageFails(r)

SpecAnswer == Init /\ [][NextAnswer]_vars

\* the user routes, any number of them in flight
NextUsers ==
    \E r \in UserReq :
        \/ RegisterStart(r)
        \/ RegisterGetUser(r)
        \/ RegisterHash(r)
        \/ RegisterCreateUser(r)
        \/ RegisterStorageFails(r)
        \/ PatchUserStart(r)
        \/ PatchUserUpdate(r)
        \/ PatchUserStorageFails(r)

SpecUsers == Init /\ [][NextUsers]_vars

\* deleting contracts beside the routes that read an analysis and ask on a
\* conversation
NextDelete ==
    \E r \in DeleteReq :
        \/ DeleteContractStart(r)
        \/ DeleteContractDelete(r)
        \/ DeleteContractStorageFails(r)
        \/ GetAnalysisStart(r)
        \/ GetAnalysisRead(r)
        \/ GetAnalysisStorageFails(r)
        \/ AskStart(r)
        \/ AskGet(r)
        \/ AskUpdate(r)
        \/ AskStorageFails(r)

SpecDelete == Init /\ [][NextDelete]_vars

(***************************************************************************)
(* Properties.                                                             *)
(***************************************************************************)
\* request r finished as a successful ask
AskSucceeded(r) ==
    req[r].kind = "ask" /\ req[r].pc = "done" /\ req[r].status = 200

\* the question of request r and, right after it, its answer are in msgs
HasPair(msgs, r) ==
    \E i \in 1..(Len(msgs) - 1) :
        msgs[i].id = UserMsgId(r) /\ msgs[i + 1].id = AiMsgId(r)

HasMessageOf(msgs, r) ==
    \E i \in 1..Len(msgs) : msgs[i].id \in {UserMsgId(r), AiMsgId(r)}

IsPrefix(s, t) == Len(s) <= Len(t) /\ SubSeq(t, 1, Len(s)) = s

\* request r takes the step
Steps(r) == req'[r] # req[r]

\* request r answers in this step
Finishes(r) == req[r].pc # "done" /\ req'[r].pc = "done"

\* conversation c was created with no messages
CreatedEmpty(c) ==
    \E r \in Req :
        /\ req[r].kind = "create" /\ req[r].status = 201
        /\ req[r].body.id = c /\ req[r].body.messages = <<>>

\* C1: asks on one conversation that all returned 200 lose no write: the
\* stored list holds the question/answer pair of each of them.
C1_NoLostAsk ==
    \A r \in Req :
        AskSucceeded(r) => HasPair(conversations[req[r].id].messages, r)

\* C2: in a conversation that started empty the stored roles alternate user,
\* assistant, ..., and each question is followed at once by its own answer,
\* however the asks interleave.
C2_PairsNeverInterleave ==
    \A c \in DOMAIN conversations :
        CreatedEmpty(c) =>
            LET msgs == conversations[c].messages IN
            /\ Len(msgs) % 2 = 0
            /\ \A i \in 1..Len(msgs) :
                IF i % 2 = 1
                    THEN msgs[i].role = "user"
                    ELSE /\ msgs[i].role = "assistant"
                         /\ msgs[i].id = msgs[i - 1].id + 1
                         /\ msgs[i].content =
                                answerContractQuestion(JsString(msgs[i - 1].content))

\* two asks on a conversation that started empty both returned 200 and the
\* conversation holds one pair: their handlers overlapped
C2_Witness ==
    \E c \in DOMAIN conversations : \E r1, r2 \in Req :
        /\ CreatedEmpty(c) /\ r1 # r2
        /\ AskSucceeded(r1) /\ req[r1].id = c
        /\ AskSucceeded(r2) /\ req[r2].id = c
        /\ Len(conversations[c].messages) = 2

\* C3: a successful ask appends to the list it read the question as a user
\* message and then the generated answer as an assistant message; what it
\* stores is that list and what it returns is the stored conversation, two
\* messages longer than before when nobody else wrote meanwhile.  An ask on
\* a stored conversation is never turned away, whatever the length.
C3_AskAppendsItsPair ==
    [][\A r \in Req :
        /\ (req[r].pc = "ask_get" /\ req'[r].pc = "ask_update") =>
            LET read == conversations[req[r].id].messages
                m == req'[r].messages
                n == Len(read)
            IN  /\ Len(m) = n + 2
                /\ SubSeq(m, 1, n) = read
                /\ m[n + 1].role = "user"
                /\ m[n + 1].content = req[r].question.s
                /\ m[n + 2].role = "assistant"
                /\ m[n + 2].content = answerContractQuestion(req[r].question)
        /\ (req[r].pc = "ask_update" /\ req'[r].status = 200) =>
            LET m == req[r].messages
                before == conversations[req[r].id].messages
                after == conversations'[req[r].id].messages
            IN  /\ after = m
                /\ req'[r].body = ConversationBody(conversations'[req[r].id])
                /\ before = SubSeq(m, 1, Len(m) - 2) => Len(after) = Len(before) + 2
        /\ (req[r].pc = "ask_get" /\ Steps(r) /\ req[r].id \in DOMAIN conversations) =>
            req'[r].status \notin {400, 404}
      ]_vars

\* an ask returned the demo conversation grown from 4 to 8 messages
C3_Witness ==
    \E r \in Req :
        /\ AskSucceeded(r)
        /\ Len(req[r].body.messages) = 8
        /\ req[r].body.messages = conversations[req[r].id].messages

\* C4: no reader ever sees half a turn: a message of a request is stored
\* only once that request has succeeded, and then the question and its
\* answer are stored together, side by side.
C4_NoPartialTurn ==
    \A c \in DOMAIN conversations : \A r \in Req :
        LET msgs == conversations[c].messages IN
        /\ HasMessageOf(msgs, r) => AskSucceeded(r) /\ req[r].id = c
        /\ \A i \in 1..Len(msgs) :
            /\ msgs[i].id = UserMsgId(r) =>
                i < Len(msgs) /\ msgs[i + 1].id = AiMsgId(r)
            /\ msgs[i].id = AiMsgId(r) =>
                i > 1 /\ msgs[i - 1].id = UserMsgId(r)

\* one ask has its two messages built and not yet stored, another has
\* failed with 500, and a third has stored its pair
C4_Witness ==
    \E r1, r2, r3 \in Req :
        /\ req[r1].pc = "ask_update"
        /\ req[r2].kind = "ask" /\ req[r2].status = 500
        /\ AskSucceeded(r3)

\* C5: the stored messages of a conversation only grow: in every step the
\* old list is a prefix of the new one.
C5_AppendOnly ==
    [][\A c \in DOMAIN conversations :
        /\ c \in DOMAIN conversations'
        /\ IsPrefix(conversations[c].messages, conversations'[c].messages)
      ]_vars

\* a question that is a string and blank after trimming
BlankQuestion(q) == q.t = "string" /\ IsBlank(q.s)

\* C6: an ask on a stored conversation whose question is blank after
\* trimming is answered 400 (a rejected storage call apart) and changes no
\* stored conversation.
C6_BlankQuestionRejected ==
    [][\A r \in Req :
        (/\ req[r].kind = "ask" /\ BlankQuestion(req[r].question)
         /\ req[r].id \in DOMAIN conversations /\ Finishes(r)) =>
            /\ conversations' = conversations
            /\ req'[r].error # "storage" => req'[r].status = 400
      ]_vars

\* C7: creating a conversation for a contract id that is not stored is
\* answered not-found (a rejected storage call apart) and stores nothing.
C7_CreateNeedsContract ==
    [][\A r \in Req :
        (req[r].pc = "create_insert" /\ req[r].id \notin DOMAIN contracts
            /\ Finishes(r)) =>
            /\ conversations' = conversations
            /\ req'[r].error # "storage" => req'[r].status = 404
      ]_vars

\* C8, as claimed: every conversation that appears in the store has no
\* messages, whatever the request carried.
C8_CreatedEmpty ==
    [][\A c \in DOMAIN conversations' \ DOMAIN conversations :
        Len(conversations'[c].messages) = 0
      ]_vars

\* C8, amended: a successful create stores one new conversation, bound to
\* the contract id of the request, whose messages are the list the request
\* carried: it is empty exactly when that list is empty.
C8_CreatedWithRequestMessages ==
    [][\A r \in Req :
        (req[r].pc = "create_insert" /\ req'[r].status = 201) =>
            LET new == DOMAIN conversations' \ DOMAIN conversations IN
            /\ Cardinality(new) = 1
            /\ \A c \in new :
                /\ conversations'[c].messages = req[r].messages
                /\ conversations'[c].contractId = req[r].id
                /\ Len(conversations'[c].messages) = 0 <=> req[r].messages = <<>>
                /\ req'[r].body = ConversationBody(conversations'[c])
      ]_vars

\* a create that carried the pair of a direct answer stored a conversation
\* of two messages, and another that carried none stored an empty one
C8_Witness ==
    \E r1, r2 \in Req :
        /\ req[r1].kind = "create" /\ req[r1].status = 201
        /\ req[r1].body.messages = DirectPair
        /\ conversations[req[r1].body.id].messages = DirectPair
        /\ req[r2].kind = "create" /\ req[r2].status = 201
        /\ conversations[req[r2].body.id].messages = <<>>

\* C9, as claimed: an ask on a conversation id that is not stored is
\* answered 404 and changes no conversation.
C9_MissingConversationIs404 ==
    [][\A r \in Req :
        (req'[r].kind = "ask" /\ Finishes(r) /\ req'[r].id \notin DOMAIN conversations) =>
            /\ req'[r].status = 404
            /\ conversations' = conversations
      ]_vars

\* C9, amended: an ask on a conversation id that is not stored creates and
\* changes no conversation; it is answered 400 when its question is empty
\* or missing (the handler answers before looking the conversation up) and
\* otherwise 404, or 500 when the storage read itself is rejected.
C9_MissingConversationRejected ==
    [][\A r \in Req :
        (req'[r].kind = "ask" /\ Finishes(r) /\ req'[r].id \notin DOMAIN conversations) =>
            /\ conversations' = conversations
            /\ nextConversationId' = nextConversationId
            /\ IF req[r].pc = "idle"
                THEN req'[r].status = 400
                ELSE /\ ~Falsy(req[r].question)
                     /\ IF req'[r].error = "storage"
                            THEN req'[r].status = 500
                            ELSE req'[r].status = 404
      ]_vars

\* an ask on the missing conversation 2 was answered 404, another with an
\* empty question 400
C9_Witness ==
    \E r1, r2 \in Req :
        /\ req[r1].kind = "ask" /\ req[r1].status = 404
        /\ req[r1].id \notin DOMAIN conversations
        /\ req[r2].kind = "ask" /\ req[r2].status = 400
        /\ req[r2].id \notin DOMAIN conversations

\* C10: no step of a direct Q&A request, whatever its outcome, changes the
\* set of stored conversations or the messages of any of them.
C10_DirectQAKeepsConversations ==
    [][\A r \in Req :
        ((req[r].kind = "qa" \/ req'[r].kind = "qa") /\ Steps(r)) =>
            /\ conversations' = conversations
            /\ nextConversationId' = nextConversationId
      ]_vars

\* direct Q&A requests were answered 200 with the termination answer, 404
\* and 400 while two conversations are stored
C10_Witness ==
    /\ Cardinality(DOMAIN conversations) = 2
    /\ \E r1, r2 \in Req :
        /\ req[r1].kind = "qa" /\ req[r1].status = 200
        /\ req[r1].body.answer = A_Termination
        /\ req[r2].kind = "qa" /\ req[r2].status \in {400, 404, 500}

\* C11: when a direct question on a contract is answered, every conversation
\* of that contract that was created empty and whose first turn is an ask of
\* the same question holds, as the content of its assistant message, the
\* very answer the direct route returns.
C11_DirectAnswerIsAskAnswer ==
    [][\A r \in Req :
        (req[r].kind = "qa" /\ Finishes(r) /\ req'[r].status = 200) =>
            \A c \in DOMAIN conversations :
                LET m == conversations[c].messages IN
                (/\ CreatedEmpty(c)
                 /\ conversations[c].contractId = req[r].id
                 /\ Len(m) >= 2
                 /\ m[1].role = "user" /\ m[1].content = req[r].question.s)
                    => (/\ m[2].role = "assistant"
                        /\ m[2].content = req'[r].body.answer)]_vars

C11_Witness ==
    \E r \in Req, c \in DOMAIN conversations :
        /\ req[r].kind = "qa" /\ req[r].status = 200
        /\ req[r].body.answer = A_Termination
        /\ CreatedEmpty(c) /\ conversations[c].contractId = 1
        /\ Len(conversations[c].messages) = 2
        /\ conversations[c].messages[1].content = Q_Terminate
        /\ conversations[c].messages[2].content = req[r].body.answer

\* C12: a step of an ask on one conversation leaves every other stored
\* conversation as it is, and while it is taken every ask in flight on
\* another conversation can take its own next step: it waits on nothing.
C12_AsksAreIndependent ==
    [][\A r \in Req :
        (req'[r].kind = "ask" /\ Steps(r)) =>
            /\ \A c \in DOMAIN conversations :
                    c # req'[r].id =>
                        /\ c \in DOMAIN conversations'
                        /\ conversations'[c] = conversations[c]
            /\ \A q \in Req \ {r} :
                    (/\ req[q].kind = "ask"
                     /\ req[q].pc \in {"ask_get", "ask_update"}
                     /\ req[q].id # req'[r].id)
                        => ENABLED (AskGet(q) \/ AskUpdate(q))]_vars

\* an ask on conversation 1 started after an ask on conversation 2 and was
\* stored while that one was still waiting for its write
C12_Witness ==
    \E r1, r2 \in Req :
        /\ r2 < r1
        /\ AskSucceeded(r1) /\ req[r1].id = 1 /\ HasPair(conversations[1].messages, r1)
        /\ req[r2].kind = "ask" /\ req[r2].id = 2 /\ req[r2].pc = "ask_update"
        /\ 2 \in DOMAIN conversations

\* request r finished as a successful analyze-contract
AnalyzeSucceeded(r) ==
    req[r].kind = "analyze" /\ req[r].pc = "done" /\ req[r].status = 200

\* the greatest level among risky clauses, LOW < MEDIUM < HIGH, and LOW for
\* none
MaxRiskLevel(clauses) ==
    IF \E c \in clauses : c.riskLevel = "high" THEN "high"
    ELSE IF \E c \in clauses : c.riskLevel = "medium" THEN "medium"
    ELSE "low"

\* C13: the analysis a successful analyze-contract answered with has as its
\* risk level the greatest level among the risky clauses stored for it, and
\* low when none is stored.
C13_RiskLevelIsMaxOfClauses ==
    \A r \in Req :
        AnalyzeSucceeded(r) =>
            analyses[req[r].body.id].fullAnalysis.riskLevel =
                MaxRiskLevel(getRiskyClausesByAnalysisId(req[r].body.id))

\* C14: the riskyClauseIndices of the analysis a successful analyze-contract
\* answered with are exactly the clause indices of the risky clauses stored
\* for it.
C14_IndicesAreStoredClauses ==
    \A r \in Req :
        AnalyzeSucceeded(r) =>
            LET indices == analyses[req[r].body.id].riskyClauseIndices IN
            {indices[i] : i \in 1..Len(indices)} =
                {c.clauseIndex : c \in getRiskyClausesByAnalysisId(req[r].body.id)}

\* request r stores its analysis in this step
StoresAnalysis(r) == req[r].pc = "an_create" /\ req'[r].pc = "an_user"

\* the number of clauses of a text that is one line with no section
\* numbers, as every text of Texts is: one, and none when it is blank
ClauseCount(text) == IF IsBlank(text.s) THEN 0 ELSE 1

\* C15: the riskyClauseIndices of an analysis, as it is stored, ascend
\* strictly (sorted, no duplicates) and each is the index of a clause of the
\* analysed text.
C15_IndicesValidAndSorted ==
    [][\A r \in Req :
        StoresAnalysis(r) =>
            LET indices == analyses'[req'[r].analysis].riskyClauseIndices IN
            /\ \A i \in 1..(Len(indices) - 1) : indices[i] < indices[i + 1]
            /\ \A i \in 1..Len(indices) :
                    indices[i] \in 0..(ClauseCount(req[r].question) - 1)]_vars

\* C16: no two stored risky clauses have the same analysis id and the same
\* clause index, however the analyses of a contract overlap.
C16_OneClausePerAnalysisIndex ==
    \A j, k \in DOMAIN riskyClauses :
        (/\ riskyClauses[j].analysisId = riskyClauses[k].analysisId
         /\ riskyClauses[j].clauseIndex = riskyClauses[k].clauseIndex) => j = k

\* two analyses of contract 1 ran at once, each storing both its clauses in
\* turn with the other
C16_Witness ==
    /\ \E r1, r2 \in Req :
        /\ r1 # r2 /\ AnalyzeSucceeded(r1) /\ AnalyzeSucceeded(r2)
        /\ analyses[req[r1].body.id].contractId = 1
        /\ analyses[req[r2].body.id].contractId = 1
    /\ DOMAIN riskyClauses = 1..10
    /\ riskyClauses[7].analysisId = riskyClauses[9].analysisId
    /\ riskyClauses[8].analysisId = riskyClauses[10].analysisId
    /\ riskyClauses[7].analysisId # riskyClauses[8].analysisId

\* C17: no step changes or removes a stored analysis or a stored risky
\* clause; an analysis that is stored gets an id no stored analysis has, and
\* risky clauses are only ever added for the analysis of the request that
\* stores them.
C17_AnalysesImmutable ==
    [][/\ \A a \in DOMAIN analyses :
            a \in DOMAIN analyses' /\ analyses'[a] = analyses[a]
       /\ \A k \in DOMAIN riskyClauses :
            k \in DOMAIN riskyClauses' /\ riskyClauses'[k] = riskyClauses[k]
       /\ \A r \in Req :
            StoresAnalysis(r) =>
                /\ req'[r].analysis \notin DOMAIN analyses
                /\ DOMAIN analyses' = DOMAIN analyses \cup {req'[r].analysis}
       /\ \A k \in DOMAIN riskyClauses' \ DOMAIN riskyClauses :
            \E r \in Req :
                /\ req[r].pc = "an_clause" /\ Steps(r)
                /\ riskyClauses'[k].analysisId = req[r].analysis]_vars

\* contract 1 was analysed again, with success, and has its demo analysis
\* with both risky clauses beside the new one with its own
C17_Witness ==
    \E r \in Req :
        /\ AnalyzeSucceeded(r)
        /\ req[r].body.id # 1 /\ analyses[req[r].body.id].contractId = 1
        /\ analyses[1] = DemoAnalyses[1]
        /\ getRiskyClausesByAnalysisId(1) = {DemoRiskyClauses[1], DemoRiskyClauses[2]}
        /\ Cardinality(getRiskyClausesByAnalysisId(req[r].body.id)) = 2

\* C18: a successful lookup of the analysis of a contract answers with the
\* one created last: no analyze-contract of that contract that has been
\* answered 200 stored an analysis with a greater id than the one returned.
C18_GetAnalysisReturnsLatest ==
    [][\A r \in Req :
        (req[r].kind = "get_analysis" /\ Finishes(r) /\ req'[r].status = 200) =>
            \A q \in Req :
                (/\ AnalyzeSucceeded(q)
                 /\ analyses[req[q].body.id].contractId = req[r].id)
                    => req[q].body.id <= req'[r].body.id]_vars

\* C19: an analyze-contract whose text is blank after trimming stores no
\* analysis and no risky clause and, unless a storage call rejects or the
\* contract is not stored, is answered 400.
C19_BlankTextRejected ==
    [][\A r \in Req :
        (/\ req'[r].kind = "analyze" /\ Steps(r)
         /\ BlankQuestion(IF req[r].pc = "idle" THEN req'[r].question
                                                ELSE req[r].question)) =>
            /\ analyses' = analyses
            /\ riskyClauses' = riskyClauses
            /\ (Finishes(r) /\ req'[r].error = "none")
                    => req'[r].status \in {400, 404}]_vars

\* C20: an analyze-contract that is answered with an error has stored no
\* analysis.
C20_FailedAnalyzeStoresNothing ==
    [][\A r \in Req :
        (req[r].kind = "analyze" /\ Finishes(r) /\ req'[r].status >= 400) =>
            req[r].analysis \notin DOMAIN analyses']_vars

\* C21: the analysis stored for the document of two clauses, termination
\* on 30 days' notice and confidentiality, has the risk level medium and the
\* risky indices [0].
C21_TwoClauseDocument ==
    [][\A r \in Req :
        (StoresAnalysis(r) /\ req[r].question = JsString(T_TwoClauses)) =>
            LET analysis == analyses'[req'[r].analysis] IN
            /\ analysis.fullAnalysis.riskLevel = "medium"
            /\ analysis.riskyClauseIndices = <<0>>]_vars

\* C22: analyzeContract, given a string, returns without throwing; a text
\* with a medium and a high keyword is high, as is "Termination" with its
\* capital letter; a text with a medium keyword only is medium; a text with
\* no keyword is low with no risky index.  The stored risk level is the
\* score.
C22_ClassificationByPriority ==
    [][\A r \in Req :
        (/\ req[r].pc = "an_get" /\ Steps(r)
         /\ getContract(req[r].id) # {}
         /\ req[r].question.t = "string"
         /\ req'[r].error # "storage") =>
            LET text == req[r].question.s
                result == req'[r].result
            IN  /\ req'[r].pc = "an_create"
                /\ result.fullAnalysis.riskLevel = result.riskScore
                /\ text = T_PaymentTermination => result.riskScore = "high"
                /\ text = T_Termination => result.riskScore = "high"
                /\ text = K_payment => result.riskScore = "medium"
                /\ text = Q_Blank =>
                        /\ result.riskScore = "low"
                        /\ result.riskyClauseIndices = <<>>]_vars

C22_Witness ==
    \E r1, r2 \in Req :
        /\ req[r1].pc = "an_create"
        /\ req[r1].question = JsString(T_PaymentTermination)
        /\ req[r1].result.riskScore = "high"
        /\ AnalyzeSucceeded(r2)
        /\ analyses[req[r2].body.id].fullAnalysis.riskLevel = "low"

\* C23: every answer a direct question is given is a non-empty text, and
\* the question whether the contract can be terminated early is given the
\* answer of the 30 days' notice.
C23_AnswerNeverEmpty ==
    [][\A r \in Req :
        (req[r].kind = "qa" /\ Finishes(r) /\ req'[r].status = 200) =>
            /\ Len(req'[r].body.answer) > 0
            /\ req[r].question.s = DemoQ1 =>
                    /\ req'[r].body.answer = A_Termination
                    /\ includes(req'[r].body.answer,
                                <<"3", "0", " ", "d", "a", "y", "s">>)]_vars

\* a question of the last keyword branch and one of no branch were answered
C23_Witness ==
    \E r1, r2 \in Req :
        /\ req[r1].kind = "qa" /\ req[r1].status = 200
        /\ req[r1].body.answer = A_Liability
        /\ req[r2].kind = "qa" /\ req[r2].status = 200
        /\ req[r2].body.answer = A_Default

\* C24: an ask writes only in the step that answers 200: every other step
\* of an ask, the ones that answer 400, 404 or 500 among them, leaves the
\* stored conversations as they are, and no message of an ask that was
\* answered with an error is in a stored conversation.
C24_FailedAskWritesNothing ==
    [][\A r \in Req :
        /\ (/\ req'[r].kind = "ask" /\ Steps(r)
            /\ ~(Finishes(r) /\ req'[r].status = 200))
                => conversations' = conversations
        /\ (req'[r].kind = "ask" /\ req'[r].pc = "done" /\ req'[r].status >= 400)
                => \A c \in DOMAIN conversations' :
                        ~HasMessageOf(conversations'[c].messages, r)]_vars

\* on the demo conversation one ask failed in answer generation and one in
\* storage, and the conversation is as addDemoData stored it
C24_Witness ==
    \E r1, r2 \in Req :
        /\ req[r1].kind = "ask" /\ req[r1].id = 1
        /\ req[r1].status = 500 /\ req[r1].error = "TypeError"
        /\ req[r2].kind = "ask" /\ req[r2].id = 1
        /\ req[r2].status = 500 /\ req[r2].error = "storage"
        /\ conversations[1] = DemoConversation

\* C25: whenever the page shows the component of a protected path, the
\* user is authenticated and the loading has finished; and when, on a
\* protected path, the loading has finished and the user is not
\* authenticated, the location becomes /login.
C25_ProtectedRoutes ==
    /\ [](Router(location, isLoading, user) = "Component"
            => (isAuthenticated(user) /\ ~isLoading))
    /\ ((location \in ProtectedPaths /\ ~isLoading /\ ~isAuthenticated(user))
            ~> (location = "/login"))

\* a protected page is shown to a user who signed up, after the redirect of
\* a visitor with nothing saved
C25_Witness ==
    /\ Router(location, isLoading, user) = "Component"
    /\ location = "/qa" /\ user = "new" /\ localStorage = "new"


\* C26: when an analyze-contract answers 200, the riskScore stored with the
\* analysed contract is the risk level the analysis computed.
C26_ContractRiskScoreUpdated ==
    [][\A r \in Req :
        (req[r].kind = "analyze" /\ Finishes(r) /\ req'[r].status = 200) =>
            contracts'[req[r].id].riskScore = req[r].result.riskScore]_vars

\* C28: no step of an analyze-contract changes the stored users: neither
\* the set of users nor any field of any user.
C28_AnalyzeChangesNoUser ==
    [][\A r \in Req :
        (req'[r].kind = "analyze" /\ Steps(r)) => users' = users]_vars


\* C27: no step of a PATCH /api/user/:id changes the stored password of a
\* user, whatever the body.
C27_PatchKeepsPassword ==
    [][\A r \in Req :
        (req'[r].kind = "patch_user" /\ Steps(r)) =>
            \A u \in DOMAIN users : users'[u].password = users[u].password]_vars

\* C30: no two stored users have the same email.
C30_EmailsUnique ==
    \A u, v \in DOMAIN users :
        u # v => users[u].email # users[v].email


\* C29: when a DELETE /api/contract/:id answers 200, no analysis and no
\* conversation of that contract is left in the store (so that the analysis
\* by contract id is not found and the conversations by contract id are
\* none), and no ask on a conversation whose contract is not stored answers
\* 200.
C29_NothingRefersToDeleted ==
    [][/\ \A d \in Req :
            (req[d].kind = "delete_contract" /\ Finishes(d)
                    /\ req'[d].status = 200) =>
                /\ \A a \in DOMAIN analyses' :
                        analyses'[a].contractId # req[d].id
                /\ \A k \in DOMAIN conversations' :
                        conversations'[k].contractId # req[d].id
       /\ \A r \in Req :
            (req[r].kind = "ask" /\ Finishes(r) /\ req'[r].status = 200) =>
                conversations[req[r].id].contractId \in DOMAIN contracts
      ]_vars

====
